---- MODULE Spec2Model ----
(***************************************************************************)
(* MultiStepper (src/MultiStepper.cpp): a bank of stepper motors kept in   *)
(* parallel heap arrays, registered with addMotor, timed with setSpeed and *)
(* moved by the blocking step().                                           *)
(*                                                                         *)
(* The model follows the statements of the source as they are written.     *)
(* Where a statement names an array without an index (this->direction,     *)
(* this->number_of_steps, this->step_number) the model takes the pointer,  *)
(* as the language does.  Memory the code reads before writing it, and     *)
(* memory outside an allocation, holds an arbitrary value.  Each array is  *)
(* modelled with the memory next to it (Window): cells that were never     *)
(* written all hold the same value, any of Garbage; a cell outside the     *)
(* allocation keeps what the code wrote there; a read beyond the window    *)
(* gives any of Garbage.                                                   *)
(***************************************************************************)
EXTENDS Integers, Sequences, FiniteSets, TLC

(***************************************************************************)
(* Bounds of the model.                                                    *)
(***************************************************************************)
MaxCap == 2        \* largest number_of_motors given to the constructor
MaxExtra == 1      \* registrations explored beyond the capacity
MaxList == 2       \* longest steps_to_move list given to step()
MaxEmit == 1       \* the emission counters saturate here
MaxOps == 3        \* calls of addMotor, setSpeed and step() in one run

\* number_of_steps values given to addMotor
StepsValues == {0, 6}
\* whatSpeed values given to setSpeed
SpeedValues == {-60, 0, 60}
\* elements of the steps_to_move lists
Targets == {-1, 0, 1}
\* values unwritten memory can turn out to hold
Garbage == {0, 3}
\* first pin of the pin group given to addMotor for the motor of slot i
PinBase(i) == 2 + 4 * i

\* the two-motor run: number_of_steps of the motors registered, the
\* whatSpeed given to setSpeed for each, and the list given to step()
ScenarioBank == <<200, 200>>
ScenarioRpm == <<60, 60>>
ScenarioList == <<4, -2>>

(***************************************************************************)
(* Integer widths.  millis() is an unsigned long; the arrays hold int.     *)
(* TLC's integers are 32-bit, so the unsigned long is modelled 30 bits     *)
(* wide; int is 16 bits wide (AVR) or as wide as long (ARM, ESP).          *)
(***************************************************************************)
ULONG_MOD == 2^30
INT16_MOD == 2^16
\* the builds: width of int and the address new[] gave number_of_steps
Builds == { [int_mod |-> INT16_MOD, addr |-> 600],
            [int_mod |-> ULONG_MOD, addr |-> 536872960] }

\* the instants at which the clock is observed, in order; after the last
\* one the counter wraps to the first
TimePoints == <<0, 40000, ULONG_MOD - 1>>

\* the content of a cell that was never written
Indeterminate == -(2^30) - 1

\* last_motor when the latest step of step() called no stepMotor
NoMotor == Indeterminate

LOW == 0
HIGH == 1

\* the values step() gives direction[i]: 1 for a positive element of
\* steps_to_move, 0 for a negative one
Forward == 1
Backward == 0

Abs(x) == IF x < 0 THEN -x ELSE x

\* C++ integer division: rounds toward zero
TruncDiv(a, b) ==
  IF (a >= 0) = (b > 0) THEN Abs(a) \div Abs(b) ELSE -(Abs(a) \div Abs(b))

\* C++ remainder: a - (a/b)*b, the sign of the dividend
TruncRem(a, b) == a - b * TruncDiv(a, b)

\* conversion of an integer value to int (two's complement, modulus m)
ToInt(x, m) == LET r == x % m IN IF r >= m \div 2 THEN r - m ELSE r

\* conversion of an int to unsigned long
ToULong(x) == x % ULONG_MOD

VARIABLES
  int_mod,          \* width of int in this build, as a modulus
  addr,             \* numeric value of the pointer this->number_of_steps
  capacity,         \* number_of_motors given to the constructor
  junk,             \* what the cells new[] left unwritten hold
  motor_count,
  step_number, speed, direction, last_step_time, number_of_steps, step_delay,
  motor_pin_1, motor_pin_2, motor_pin_3, motor_pin_4, pin_count,
  step_number_off,  \* this->step_number minus the start of its allocation
  now,              \* index in TimePoints of the current millis()
  pc,               \* "idle", or the position inside step(), or "crashed"
  steps_to_move,    \* step(): the argument
  steps_left,       \* step(): the local array
  pos,              \* step(): position of the range-for in steps_to_move
  gate_now,         \* step(): the millis() reading the time test used
  ops,              \* calls made since Init
  pin_mode,         \* pins configured as OUTPUT
  last_writes,      \* digitalWrite calls made by the latest step of step()
  last_motor,       \* motor argument of that stepMotor call, else NoMotor
  emitted,          \* stepMotor calls per motor argument in this step()
  error,            \* error reported by the latest operation
  ub                \* an access outside an allocation or a division by 0 happened

arrays == <<step_number, speed, direction, last_step_time, number_of_steps,
            step_delay, motor_pin_1, motor_pin_2, motor_pin_3, motor_pin_4,
            pin_count>>
build == <<int_mod, addr, capacity, junk>>
locals == <<steps_to_move, steps_left, pos, gate_now>>
outputs == <<last_writes, last_motor, emitted>>
vars == <<build, motor_count, arrays, step_number_off, now, pc, locals, ops,
          pin_mode, outputs, error, ub>>

\* the indexes of an allocation of n cells
Cells(n) == 0 .. (n - 1)
\* a fresh allocation of n cells: new int[n] initialises nothing
NewArray(n) == [i \in Cells(n) |-> Indeterminate]

\* the indexes the code forms: motor_count at addMotor, the elements of
\* steps_to_move in step()
Elements == Targets \cup { ScenarioList[j] : j \in DOMAIN ScenarioList }
LoIndex ==
  LET S == Elements \cup {0} IN CHOOSE m \in S : \A x \in S : m <= x
MaxIndex ==
  LET S == Elements \cup {MaxCap + MaxExtra - 1}
  IN CHOOSE m \in S : \A x \in S : x <= m
\* the memory modelled for each member array: its allocation, Cells(capacity),
\* and the cells next to it that those indexes reach
Window == LoIndex .. MaxIndex
Memory == [i \in Window |-> Indeterminate]
\* whether index i is outside the allocation of a member array
Outside(i) == i \notin Cells(capacity)
\* arr[i] = v; memory beyond the window is not modelled
Store(arr, i, v) == IF i \in DOMAIN arr THEN [arr EXCEPT ![i] = v] ELSE arr
\* the value of a cell
Val(c) == IF c = Indeterminate THEN junk ELSE c
\* the values a read of arr[i] can give
Load(arr, i) ==
  IF i \in DOMAIN arr
  THEN {Val(arr[i])}
  ELSE Garbage
\* the lowest offset of this->step_number the model tells apart: from there
\* on every step_number[i] is below the window
OffFloor == LoIndex - MaxIndex - 1

millis == TimePoints[now]

Init ==
  /\ \E b \in Builds : int_mod = b.int_mod /\ addr = b.addr
  /\ capacity \in 1 .. MaxCap
  /\ junk \in Garbage
  /\ motor_count = 0
  /\ step_number = Memory
  /\ speed = Memory
  /\ direction = Memory
  /\ last_step_time = Memory
  /\ number_of_steps = Memory
  /\ step_delay = Memory
  /\ motor_pin_1 = Memory
  /\ motor_pin_2 = Memory
  /\ motor_pin_3 = Memory
  /\ motor_pin_4 = Memory
  /\ pin_count = Memory
  /\ step_number_off = 0
  /\ now = 1
  /\ pc = "idle"
  /\ steps_to_move = <<>>
  /\ steps_left = NewArray(0)
  /\ pos = 0
  /\ gate_now = 0
  /\ ops = 0
  /\ pin_mode = {}
  /\ last_writes = <<>>
  /\ last_motor = NoMotor
  /\ emitted = [t \in Window |-> 0]
  /\ error = "none"
  /\ ub = FALSE

(***************************************************************************)
(* addMotor, two-wire (lines 78-103).  There is no test of motor_count     *)
(* against the capacity and none of number_of_steps; nothing is returned   *)
(* or thrown.  step_delay[i] is not written.                               *)
(***************************************************************************)
addMotor2(steps, pin_1, pin_2) ==
  LET i == motor_count IN
  /\ pc = "idle"
  /\ ops < MaxOps
  /\ ops' = ops + 1
  /\ motor_count < capacity + MaxExtra
  /\ step_number' = Store(step_number, step_number_off + i, 0)
  /\ speed' = Store(speed, i, 0)
  /\ direction' = Store(direction, i, 0)
  /\ last_step_time' = Store(last_step_time, i, 0)
  /\ number_of_steps' = Store(number_of_steps, i, steps)
  /\ motor_pin_1' = Store(motor_pin_1, i, pin_1)
  /\ motor_pin_2' = Store(motor_pin_2, i, pin_2)
  /\ pin_mode' = pin_mode \cup {pin_1, pin_2}
  /\ motor_pin_3' = Store(motor_pin_3, i, 0)
  /\ motor_pin_4' = Store(motor_pin_4, i, 0)
  /\ pin_count' = Store(pin_count, i, 2)
  /\ motor_count' = motor_count + 1
  /\ ub' = (ub \/ Outside(i) \/ Outside(step_number_off + i))
  /\ error' = "none"
  /\ UNCHANGED <<build, step_delay, step_number_off, now, pc, locals, outputs>>

(***************************************************************************)
(* addMotor, four-wire (lines 109-134).                                    *)
(***************************************************************************)
addMotor4(steps, pin_1, pin_2, pin_3, pin_4) ==
  LET i == motor_count IN
  /\ pc = "idle"
  /\ ops < MaxOps
  /\ ops' = ops + 1
  /\ motor_count < capacity + MaxExtra
  /\ step_number' = Store(step_number, step_number_off + i, 0)
  /\ speed' = Store(speed, i, 0)
  /\ direction' = Store(direction, i, 0)
  /\ last_step_time' = Store(last_step_time, i, 0)
  /\ number_of_steps' = Store(number_of_steps, i, steps)
  /\ motor_pin_1' = Store(motor_pin_1, i, pin_1)
  /\ motor_pin_2' = Store(motor_pin_2, i, pin_2)
  /\ motor_pin_3' = Store(motor_pin_3, i, pin_3)
  /\ motor_pin_4' = Store(motor_pin_4, i, pin_4)
  /\ pin_mode' = pin_mode \cup {pin_1, pin_2, pin_3, pin_4}
  /\ pin_count' = Store(pin_count, i, 4)
  /\ motor_count' = motor_count + 1
  /\ ub' = (ub \/ Outside(i) \/ Outside(step_number_off + i))
  /\ error' = "none"
  /\ UNCHANGED <<build, step_delay, step_number_off, now, pc, locals, outputs>>

(***************************************************************************)
(* setSpeed (lines 140-143).  The slot written is step_delay[i], and i is  *)
(* not declared in this function (the parameter motor is not used): any    *)
(* slot of the allocation may be the one.  The divisor is the pointer      *)
(* this->number_of_steps, not an element of the array.  whatSpeed = 0      *)
(* divides by zero: the program traps, or goes on with an arbitrary        *)
(* quotient.  There is no test of whatSpeed; nothing is returned.          *)
(***************************************************************************)
SpeedQuotient(whatSpeed) == TruncDiv(TruncDiv(60 * 1000, addr), whatSpeed)

setSpeed(whatSpeed, motor) ==
  /\ pc = "idle"
  /\ ops < MaxOps
  /\ ops' = ops + 1
  /\ motor \in Cells(motor_count)
  /\ \E i \in Cells(capacity) :
       IF whatSpeed # 0
       THEN /\ step_delay' =
                 Store(step_delay, i, ToInt(SpeedQuotient(whatSpeed), int_mod))
            /\ UNCHANGED <<pc, ub>>
       ELSE /\ ub' = TRUE
            /\ \/ /\ pc' = "crashed"
                  /\ UNCHANGED step_delay
               \/ /\ \E g \in Garbage : step_delay' = Store(step_delay, i, g)
                  /\ UNCHANGED pc
  /\ error' = "none"
  /\ UNCHANGED <<build, motor_count, step_number, speed, direction,
                 last_step_time, number_of_steps, motor_pin_1, motor_pin_2,
                 motor_pin_3, motor_pin_4, pin_count, step_number_off, now,
                 locals, pin_mode, outputs>>

\* the clock moves on to its next observed instant, wrapping after the last
Tick ==
  /\ pc # "crashed"
  /\ now' = IF now = Len(TimePoints) THEN 1 ELSE now + 1
  /\ UNCHANGED <<build, motor_count, arrays, step_number_off, pc, locals,
                 ops, pin_mode, outputs, error, ub>>

(***************************************************************************)
(* step(), lines 159-197.  The call is split where it reads the clock.     *)
(***************************************************************************)
\* the lists a caller can pass
Lists == UNION { [1 .. n -> Targets] : n \in 0 .. MaxList }

\* stepsLeft (lines 146-153): the largest element, 0 if none is positive
stepsLeft(left) ==
  LET S == { Val(left[i]) : i \in DOMAIN left } \cup {0}
  IN CHOOSE m \in S : \A x \in S : x <= m

\* the time test of line 179: unsigned long arithmetic
Gate(t, last, delay) == ((t - ToULong(last)) % ULONG_MOD) >= ToULong(delay)

\* stepMotor with the levels of its case 1 of the two-wire table given to
\* the wrong pins, and the cases 1 and 2 of the four-wire table exchanged
stepMotorSwapped(thisStep, count, p1, p2, p3, p4) ==
  IF count = 2 THEN
    CASE thisStep = 0 -> << <<p1, LOW>>, <<p2, HIGH>> >>
      [] thisStep = 1 -> << <<p1, HIGH>>, <<p2, LOW>> >>
      [] thisStep = 2 -> << <<p1, HIGH>>, <<p2, LOW>> >>
      [] thisStep = 3 -> << <<p1, LOW>>, <<p2, LOW>> >>
      [] OTHER -> << >>
  ELSE IF count = 4 THEN
    CASE thisStep = 0 -> << <<p1, HIGH>>, <<p2, LOW>>, <<p3, HIGH>>, <<p4, LOW>> >>
      [] thisStep = 1 -> << <<p1, LOW>>, <<p2, HIGH>>, <<p3, LOW>>, <<p4, HIGH>> >>
      [] thisStep = 2 -> << <<p1, LOW>>, <<p2, HIGH>>, <<p3, HIGH>>, <<p4, LOW>> >>
      [] thisStep = 3 -> << <<p1, HIGH>>, <<p2, LOW>>, <<p3, LOW>>, <<p4, HIGH>> >>
      [] OTHER -> << >>
  ELSE << >>

\* stepMotor (lines 202-252): the digitalWrite calls, in order
stepMotor(thisStep, count, p1, p2, p3, p4) ==
  IF count = 2 THEN
    CASE thisStep = 0 -> << <<p1, LOW>>, <<p2, HIGH>> >>
      [] thisStep = 1 -> << <<p1, HIGH>>, <<p2, HIGH>> >>
      [] thisStep = 2 -> << <<p1, HIGH>>, <<p2, LOW>> >>
      [] thisStep = 3 -> << <<p1, LOW>>, <<p2, LOW>> >>
      [] OTHER -> << >>
  ELSE IF count = 4 THEN
    CASE thisStep = 0 -> << <<p1, HIGH>>, <<p2, LOW>>, <<p3, HIGH>>, <<p4, LOW>> >>
      [] thisStep = 1 -> << <<p1, LOW>>, <<p2, HIGH>>, <<p3, HIGH>>, <<p4, LOW>> >>
      [] thisStep = 2 -> << <<p1, LOW>>, <<p2, HIGH>>, <<p3, LOW>>, <<p4, HIGH>> >>
      [] thisStep = 3 -> << <<p1, HIGH>>, <<p2, LOW>>, <<p3, LOW>>, <<p4, HIGH>> >>
      [] OTHER -> << >>
  ELSE << >>

\* lines 159-163: the call, its argument and the allocation of steps_left
step(list) ==
  /\ pc = "idle"
  /\ ops < MaxOps
  /\ ops' = ops + 1
  /\ pc' = "setup"
  /\ steps_to_move' = list
  /\ steps_left' = NewArray(motor_count)
  /\ pos' = 0
  /\ emitted' = [t \in Window |-> 0]
  /\ error' = "none"
  /\ last_writes' = << >>
  /\ last_motor' = NoMotor
  /\ UNCHANGED <<build, motor_count, arrays, step_number_off, now, gate_now,
                 pin_mode, ub>>

\* lines 165-174: steps_left[i] = abs(steps) and the direction of slot i, for
\* the elements of the list in order.  The length of the list is not
\* compared with motor_count.
stepSetup ==
  LET n == Len(steps_to_move) IN
  /\ pc = "setup"
  /\ steps_left' = [i \in DOMAIN steps_left |->
                      IF i < n THEN Abs(steps_to_move[i + 1]) ELSE steps_left[i]]
  /\ direction' = [i \in DOMAIN direction |->
                      IF i \in Cells(n) /\ steps_to_move[i + 1] > 0 THEN Forward
                      ELSE IF i \in Cells(n) /\ steps_to_move[i + 1] < 0
                           THEN Backward
                      ELSE direction[i]]
  /\ ub' = (ub \/ n > motor_count
               \/ \E i \in Cells(n) : i >= capacity /\ steps_to_move[i + 1] # 0)
  /\ pc' = "while"
  /\ UNCHANGED <<build, motor_count, step_number, speed, last_step_time,
                 number_of_steps, step_delay, motor_pin_1, motor_pin_2,
                 motor_pin_3, motor_pin_4, pin_count, step_number_off, now,
                 steps_to_move, pos, gate_now, ops, pin_mode, outputs, error>>

\* line 177: the loop goes on while stepsLeft(steps_left) > 0, and step()
\* returns otherwise
stepWhile ==
  /\ pc = "while"
  /\ IF stepsLeft(steps_left) > 0
     THEN /\ IF Len(steps_to_move) > 0
             THEN pc' = "for" /\ pos' = 1
             ELSE UNCHANGED <<pc, pos>>
          /\ UNCHANGED <<steps_to_move, steps_left>>
     ELSE /\ pc' = "idle"
          /\ steps_to_move' = << >>
          /\ steps_left' = NewArray(0)
          /\ pos' = 0
  /\ last_writes' = << >>
  /\ last_motor' = NoMotor
  /\ UNCHANGED <<build, motor_count, arrays, step_number_off, now, gate_now,
                 ops, pin_mode, emitted, error, ub>>

\* the range-for of line 178 moves to its next element, or ends
Advance ==
  IF pos < Len(steps_to_move)
  THEN pc' = "for" /\ pos' = pos + 1
  ELSE pc' = "while" /\ pos' = 0

\* lines 178-179: motor is the ELEMENT of steps_to_move, and the time test
\* reads last_step_time[motor] and step_delay[motor]
stepFor ==
  LET motor == steps_to_move[pos] IN
  /\ pc = "for"
  /\ \E open \in { Gate(millis, last, delay) :
                     last \in Load(last_step_time, motor),
                     delay \in Load(step_delay, motor) } :
       IF open
       THEN pc' = "advance" /\ gate_now' = millis /\ UNCHANGED pos
       ELSE Advance /\ UNCHANGED gate_now
  /\ last_writes' = << >>
  /\ last_motor' = NoMotor
  /\ ub' = (ub \/ Outside(motor))
  /\ UNCHANGED <<build, motor_count, arrays, step_number_off, now,
                 steps_to_move, steps_left, ops, pin_mode, emitted, error>>

\* lines 180-193.  millis() is read again.  this->direction == 1 compares
\* the pointer with 1 and is false, so the else branch runs: a step_number
\* of 0 becomes number_of_steps[motor], then this->step_number-- moves the
\* pointer one element down, and the phase is read through the moved
\* pointer.  steps_left is not written.
stepAdvance ==
  LET motor == steps_to_move[pos]
      e1 == step_number_off + motor
      off == IF step_number_off > OffFloor THEN step_number_off - 1 ELSE OffFloor
      e2 == off + motor
  IN
  /\ pc = "advance"
  /\ last_step_time' = Store(last_step_time, motor, ToInt(millis, int_mod))
  /\ \E sn1 \in { IF v = 0 THEN Store(step_number, e1, n) ELSE step_number :
                    v \in Load(step_number, e1),
                    n \in Load(number_of_steps, motor) } :
       /\ step_number' = sn1
       /\ last_writes' \in
            { stepMotor(TruncRem(w, 4), count, p1, p2, p3, p4) :
                w \in Load(sn1, e2),
                count \in Load(pin_count, motor),
                p1 \in Load(motor_pin_1, motor),
                p2 \in Load(motor_pin_2, motor),
                p3 \in Load(motor_pin_3, motor),
                p4 \in Load(motor_pin_4, motor) }
  /\ step_number_off' = off
  /\ gate_now' = 0
  /\ last_motor' = motor
  /\ emitted' = [emitted EXCEPT
                   ![motor] = IF @ < MaxEmit THEN @ + 1 ELSE MaxEmit]
  /\ Advance
  /\ ub' = (ub \/ Outside(motor) \/ Outside(e1) \/ Outside(e2))
  /\ UNCHANGED <<build, motor_count, speed, direction, number_of_steps,
                 step_delay, motor_pin_1, motor_pin_2, motor_pin_3,
                 motor_pin_4, pin_count, now,
                 steps_to_move, steps_left, ops, pin_mode, error>>

Next ==
  \/ \E s \in StepsValues :
       LET b == PinBase(motor_count) IN addMotor2(s, b, b + 1)
  \/ \E s \in StepsValues :
       LET b == PinBase(motor_count) IN addMotor4(s, b, b + 1, b + 2, b + 3)
  \/ \E w \in SpeedValues, m \in Cells(MaxCap + MaxExtra) : setSpeed(w, m)
  \/ \E list \in Lists : step(list)
  \/ stepSetup
  \/ stepWhile
  \/ stepFor
  \/ stepAdvance
  \/ Tick

Spec == Init /\ [][Next]_vars

\* the thread inside step() keeps running and the clock keeps counting
FairSpec ==
  /\ Init
  /\ [][Next]_vars
  /\ WF_vars(Tick)
  /\ WF_vars(stepSetup)
  /\ WF_vars(stepWhile)
  /\ WF_vars(stepFor)
  /\ WF_vars(stepAdvance)

(***************************************************************************)
(* The two-motor run: a bank constructed for the motors of ScenarioBank,   *)
(* each registered four-wire with addMotor (lines 109-134); then setSpeed  *)
(* for motor 0 and for motor 1, then step(ScenarioList).                   *)
(***************************************************************************)
\* a member array after the registrations, seq[i + 1] being what addMotor
\* stored in slot i
Filled(seq) ==
  [i \in Window |-> IF i \in Cells(Len(seq)) THEN seq[i + 1] ELSE Indeterminate]
\* the constant v in every registered slot
AllSlots(v) == Filled([j \in DOMAIN ScenarioBank |-> v])
\* the k-th pin of each registered motor
PinsAt(k) == Filled([j \in DOMAIN ScenarioBank |-> PinBase(j - 1) + k])

\* the state after the constructor and the addMotor calls
ScenarioInit ==
  /\ \E b \in Builds : int_mod = b.int_mod /\ addr = b.addr
  /\ capacity = Len(ScenarioBank)
  /\ junk \in Garbage
  /\ motor_count = Len(ScenarioBank)
  /\ step_number = AllSlots(0)
  /\ speed = AllSlots(0)
  /\ direction = AllSlots(0)
  /\ last_step_time = AllSlots(0)
  /\ number_of_steps = Filled(ScenarioBank)
  /\ step_delay = Memory
  /\ motor_pin_1 = PinsAt(0)
  /\ motor_pin_2 = PinsAt(1)
  /\ motor_pin_3 = PinsAt(2)
  /\ motor_pin_4 = PinsAt(3)
  /\ pin_count = AllSlots(4)
  /\ step_number_off = 0
  /\ now = 1
  /\ pc = "idle"
  /\ steps_to_move = <<>>
  /\ steps_left = NewArray(0)
  /\ pos = 0
  /\ gate_now = 0
  /\ ops = 0
  /\ pin_mode = { PinBase(j - 1) + k : j \in DOMAIN ScenarioBank, k \in 0 .. 3 }
  /\ last_writes = <<>>
  /\ last_motor = NoMotor
  /\ emitted = [t \in Window |-> 0]
  /\ error = "none"
  /\ ub = FALSE

\* setSpeed for the motors in order, then the one step() call
ScenarioNext ==
  \/ /\ ops < Len(ScenarioRpm)
     /\ setSpeed(ScenarioRpm[ops + 1], ops)
  \/ /\ ops = Len(ScenarioRpm)
     /\ step(ScenarioList)
  \/ stepSetup
  \/ stepWhile
  \/ stepFor
  \/ stepAdvance
  \/ Tick

ScenarioSpec ==
  /\ ScenarioInit
  /\ [][ScenarioNext]_vars
  /\ WF_vars(Tick)
  /\ WF_vars(stepSetup)
  /\ WF_vars(stepWhile)
  /\ WF_vars(stepFor)
  /\ WF_vars(stepAdvance)

(***************************************************************************)
(* Properties.                                                             *)
(***************************************************************************)
\* step() is running
InCall == pc \in {"setup", "while", "for", "advance"}
\* step_number[i], read through this->step_number where it points now
StepIndex(i) ==
  IF step_number_off + i \in DOMAIN step_number
  THEN Val(step_number[step_number_off + i])
  ELSE Indeterminate
\* slot i holds a registered motor inside the allocation
Registered(i) == i \in Cells(motor_count) /\ i \in Cells(capacity)
\* the transition is the body of lines 180-193
AdvanceStep == pc = "advance" /\ pc' # "advance"

\* every element of the list is the index of a registered motor, so the
\* time test of the call reads inside the allocations
ListInBank ==
  \A j \in 1 .. Len(steps_to_move) : Registered(steps_to_move[j])

\* C1: for a registered motor i with S steps per revolution, a step() call
\* whose element i is k returns with step_number[i] = (v + k) mod S, v being
\* step_number[i] at the call, whatever the other elements are.
C1_MoveByReachesTarget ==
  \A i \in Cells(MaxCap), k \in Targets, S \in StepsValues \ {0}, v \in {0, 3} :
    ( /\ pc = "setup"
      /\ Registered(i)
      /\ Len(steps_to_move) = motor_count
      /\ ListInBank
      /\ steps_to_move[i + 1] = k
      /\ number_of_steps[i] = S
      /\ StepIndex(i) = v )
    ~> ( pc = "idle" /\ StepIndex(i) = (v + k) % S )

\* C2: with the clock counting on, every step() call returns, it returns
\* only with every counter of steps_left at 0, and each advance of a motor
\* takes one off a counter of steps_left.
C2_MoveByReturns ==
  /\ (pc = "setup" /\ Len(steps_to_move) = motor_count) ~> (pc = "idle")
  /\ [][(pc = "while" /\ pc' = "idle")
          => \A i \in DOMAIN steps_left : Val(steps_left[i]) = 0]_vars
  /\ [][AdvanceStep
          => \E i \in DOMAIN steps_left :
               Val(steps_left'[i]) = Val(steps_left[i]) - 1]_vars

\* C3: during a step() call stepMotor is called for motor i at most
\* abs(steps_to_move[i]) times (and exactly that often by the return), and
\* never for an index that is not a registered motor.
C3_EmissionsMatchTargets ==
  InCall =>
    \A m \in DOMAIN emitted :
      emitted[m] > 0 =>
        /\ m \in Cells(motor_count)
        /\ m < Len(steps_to_move)
        /\ emitted[m] <= Abs(steps_to_move[m + 1])

\* C4: a motor is advanced only when millis() - last_step_time >= step_delay
\* held for the clock reading of the test, and the advance stores that same
\* reading in last_step_time.
C4_AdvanceStoresTestedReading ==
  [][AdvanceStep =>
       LET motor == steps_to_move[pos] IN
       Registered(motor) =>
         /\ Gate(gate_now, Val(last_step_time[motor]), Val(step_delay[motor]))
         /\ last_step_time'[motor] = ToInt(gate_now, int_mod)]_vars

\* C5: setSpeed(R, m) with R > 0, for a registered motor m with S > 0 steps
\* per revolution, stores step_delay[m] = 60000 / (S * R), rounded toward 0.
C5_SetSpeedInterval ==
  [][\A R \in SpeedValues, m \in Cells(MaxCap) :
       ( /\ R > 0
         /\ Registered(m)
         /\ number_of_steps[m] > 0
         /\ setSpeed(R, m) )
       => step_delay'[m] = TruncDiv(60 * 1000, number_of_steps[m] * R)]_vars

\* the transition is a call of addMotor (either overload)
IsAddMotor ==
  \E s \in StepsValues :
    LET b == PinBase(motor_count)
    IN addMotor2(s, b, b + 1) \/ addMotor4(s, b, b + 1, b + 2, b + 3)

\* C6: motor_count stays within 0 .. capacity, and addMotor called with
\* motor_count = capacity reports CapacityExceeded and changes neither
\* motor_count nor any array.
C6_CapacityRespected ==
  /\ [](motor_count \in 0 .. capacity)
  /\ [][(motor_count = capacity /\ IsAddMotor)
          => /\ error' = "CapacityExceeded"
             /\ motor_count' = motor_count
             /\ arrays' = arrays]_vars

\* C7: a step() call whose list is not motor_count long reports
\* ArgumentCountMismatch, and nothing it does changes step_number, direction
\* or last_step_time or writes a pin.
C7_WrongLengthRejected ==
  [][(InCall /\ Len(steps_to_move) # motor_count)
       => /\ error = "ArgumentCountMismatch"
          /\ step_number' = step_number
          /\ step_number_off' = step_number_off
          /\ direction' = direction
          /\ last_step_time' = last_step_time
          /\ last_motor' = NoMotor]_vars

\* C8: setSpeed with whatSpeed <= 0 reports InvalidSpeed and leaves
\* step_delay as it was, so no stored interval is negative and no division
\* by zero happens.
C8_InvalidSpeedRejected ==
  /\ [][\A R \in SpeedValues, m \in Cells(MaxCap) :
          (R <= 0 /\ setSpeed(R, m))
          => error' = "InvalidSpeed" /\ step_delay' = step_delay]_vars
  /\ [](\A i \in Cells(capacity) :
          step_delay[i] # Indeterminate => step_delay[i] >= 0)
  /\ [](pc # "crashed")

\* C9: addMotor with number_of_steps <= 0 reports InvalidStepCount and
\* neither counts a motor nor configures a pin, so every registered motor
\* has number_of_steps > 0.
C9_InvalidStepCountRejected ==
  /\ [][\A s \in StepsValues :
          LET b == PinBase(motor_count) IN
          ( /\ s <= 0
            /\ addMotor2(s, b, b + 1) \/ addMotor4(s, b, b + 1, b + 2, b + 3) )
          => /\ error' = "InvalidStepCount"
             /\ motor_count' = motor_count
             /\ pin_mode' = pin_mode]_vars
  /\ [](\A i \in Cells(capacity) :
          Registered(i) => number_of_steps[i] > 0)

\* C10: addMotor makes the block of index motor_count with step_number 0,
\* direction Forward (the value step() gives for a positive element),
\* last_step_time 0 and step_delay 0.
C10_FreshBlock ==
  [][(IsAddMotor /\ motor_count \in Cells(capacity) /\ step_number_off = 0)
       => LET i == motor_count IN
          /\ motor_count' = i + 1
          /\ step_number'[i] = 0
          /\ direction'[i] = Forward
          /\ last_step_time'[i] = 0
          /\ Val(step_delay'[i]) = 0]_vars

\* step_number[i] can be read in the state after the transition
IndexKnown(i) == step_number_off' + i \in Window
\* step_number[i] in the state after the transition
NextIndex(i) == Val(step_number'[step_number_off' + i])

\* C11: step() gives direction[i] the sign of steps_to_move[i] (Forward for
\* a positive element, Backward for a negative one, the old value for 0), and
\* every advance of motor i moves step_number[i] one step in direction[i],
\* modulo number_of_steps[i].
C11_DirectionPerMotor ==
  /\ [][(pc = "setup" /\ pc' = "while")
          => \A i \in Cells(Len(steps_to_move)) :
               Registered(i) =>
                 direction'[i] =
                   IF steps_to_move[i + 1] > 0 THEN Forward
                   ELSE IF steps_to_move[i + 1] < 0 THEN Backward
                   ELSE direction[i]]_vars
  /\ [][AdvanceStep =>
          LET motor == steps_to_move[pos] IN
          ( /\ Registered(motor)
            /\ number_of_steps[motor] > 0
            /\ StepIndex(motor) \in 0 .. (number_of_steps[motor] - 1)
            /\ IndexKnown(motor) )
          => StepIndex(motor)' =
               ( StepIndex(motor)
                 + (IF Val(direction[motor]) = Forward THEN 1 ELSE -1) )
               % number_of_steps[motor]]_vars

\* C12: in the two-motor run (200 steps each, setSpeed 60 for both, both at
\* step 0) step({+4, -2}) returns with step_number[0] = 4 and
\* step_number[1] = 198, and each stepMotor call of it is for motor 0, one
\* step up, or for motor 1, one step down, with the pattern of the new step
\* number modulo 4 on that motor's pins.
C12_TwoMotorScenario ==
  /\ (pc = "setup" /\ ops = Len(ScenarioRpm) + 1)
       ~> ( /\ pc = "idle"
            /\ \A i \in Cells(Len(ScenarioBank)) :
                 StepIndex(i) = ScenarioList[i + 1] % ScenarioBank[i + 1] )
  /\ [][(AdvanceStep /\ ops = Len(ScenarioRpm) + 1)
          => LET m == steps_to_move[pos] IN
             /\ m \in Cells(Len(ScenarioBank))
             /\ StepIndex(m)' =
                  ( StepIndex(m) + (IF ScenarioList[m + 1] > 0 THEN 1 ELSE -1) )
                  % ScenarioBank[m + 1]
             /\ last_writes' =
                  stepMotor(StepIndex(m)' % 4, 4, PinBase(m), PinBase(m) + 1,
                            PinBase(m) + 2, PinBase(m) + 3)]_vars

\* the levels the two-wire and the four-wire tables give for the phases
\* 0, 1, 2, 3, pin by pin
TwoWireLevels ==
  << <<LOW, HIGH>>, <<HIGH, HIGH>>, <<HIGH, LOW>>, <<LOW, LOW>> >>
FourWireLevels ==
  << <<HIGH, LOW, HIGH, LOW>>, <<LOW, HIGH, HIGH, LOW>>,
     <<LOW, HIGH, LOW, HIGH>>, <<HIGH, LOW, LOW, HIGH>> >>
\* the writes of phase p for the motor registered in slot m: one level for
\* each of the pins it was registered with (2 or 4), in the order of the pins
Pattern(p, m) ==
  LET levels == IF pin_count[m] = 2 THEN TwoWireLevels[p + 1]
                                    ELSE FourWireLevels[p + 1]
  IN [k \in DOMAIN levels |-> <<PinBase(m) + k - 1, levels[k]>>]

\* C13: for a registered motor and each phase 0..3, stepMotor writes exactly
\* the row of the two-wire table (LOW HIGH, HIGH HIGH, HIGH LOW, LOW LOW) or
\* of the four-wire table (HIGH LOW HIGH LOW, LOW HIGH HIGH LOW, LOW HIGH LOW
\* HIGH, HIGH LOW LOW HIGH) to that motor's own pins, 2 or 4 writes, the same
\* writes whenever the phase and the motor are the same; and the writes of
\* every stepMotor call step() makes for a registered motor are such a row.
C13_PatternTables ==
  /\ \A m \in Cells(capacity) :
       Registered(m) =>
         \A p \in 0 .. 3 :
           stepMotor(p, pin_count[m], motor_pin_1[m], motor_pin_2[m],
                     motor_pin_3[m], motor_pin_4[m]) = Pattern(p, m)
  /\ (last_motor # NoMotor /\ Registered(last_motor))
       => \/ last_writes = << >>
          \/ \E p \in 0 .. 3 : last_writes = Pattern(p, last_motor)

\* C13 witness: step() has just called stepMotor for a registered four-wire
\* motor and the four writes were made.
C13_FourWireEmitted ==
  /\ last_motor # NoMotor
  /\ Registered(last_motor)
  /\ pin_count[last_motor] = 4
  /\ Len(last_writes) = 4

\* C14: in every reachable state, step() running or not, each registered
\* motor i has 0 <= step_number[i] < number_of_steps[i].
C14_StepIndexInRange ==
  \A i \in Cells(capacity) :
    ( /\ Registered(i)
      /\ number_of_steps[i] > 0
      /\ step_number_off + i \in Window )
    => StepIndex(i) \in 0 .. (number_of_steps[i] - 1)

\* the member arrays setSpeed has no business with
NotTheDelays ==
  <<step_number, step_number_off, direction, last_step_time, number_of_steps,
    motor_pin_1, motor_pin_2, motor_pin_3, motor_pin_4, pin_count>>

\* C15: setSpeed(R, m) changes step_delay[m] and nothing else (no other
\* motor's step_delay, no step_number, direction, last_step_time or wiring),
\* and step_delay changes in no other operation.
C15_SetSpeedFrame ==
  /\ [][\A R \in SpeedValues, m \in Cells(capacity) :
          (R > 0 /\ Registered(m) /\ setSpeed(R, m))
          => /\ \A j \in Cells(capacity) :
                  j # m => step_delay'[j] = step_delay[j]
             /\ NotTheDelays' = NotTheDelays]_vars
  /\ [][(step_delay' # step_delay)
          => \E R \in SpeedValues, m \in Cells(motor_count) : setSpeed(R, m)]_vars

\* C16: while step() is in its loop, a registered motor i whose counter
\* steps_left[i] is 0 keeps step_number[i], direction[i] and
\* last_step_time[i], and no stepMotor call is made for it.
C16_OnlyMotorsWithStepsLeft ==
  [][\A i \in Cells(capacity) :
       ( /\ pc \in {"while", "for", "advance"}
         /\ Registered(i)
         /\ i < Len(steps_to_move)
         /\ steps_left[i] = 0 )
       => /\ step_number' = step_number
          /\ step_number_off' = step_number_off
          /\ direction'[i] = direction[i]
          /\ last_step_time'[i] = last_step_time[i]
          /\ last_motor' # i]_vars

\* C17: in a step() call with one element per registered motor, the motor
\* examined at position pos of the loop is motor pos - 1: its last_step_time
\* and step_delay decide the time test, it alone is advanced, and it is
\* advanced whenever its test holds and it has steps left.
C17_RegistrationOrder ==
  /\ [][( /\ pc = "for"
          /\ pc' = "advance"
          /\ Len(steps_to_move) = motor_count
          /\ Registered(pos - 1) )
          => Gate(millis, Val(last_step_time[pos - 1]),
                  Val(step_delay[pos - 1]))]_vars
  /\ [][(AdvanceStep /\ Len(steps_to_move) = motor_count)
          => /\ last_motor' = pos - 1
             /\ \A j \in Cells(capacity) :
                  j # pos - 1 => last_step_time'[j] = last_step_time[j]]_vars
  /\ [][( /\ pc = "for"
          /\ Len(steps_to_move) = motor_count
          /\ Registered(pos - 1)
          /\ steps_left[pos - 1] > 0
          /\ Gate(millis, Val(last_step_time[pos - 1]), Val(step_delay[pos - 1]))
          /\ <<pc, pos>>' # <<pc, pos>> )
          => pc' = "advance"]_vars

\* C18: when step() advances a registered motor again, no other motor having
\* been advanced since, the phase it passes to stepMotor is one further in
\* the cycle 0,1,2,3 than the phase of the motor's previous emission: +1
\* modulo 4 for Forward, -1 modulo 4 for Backward, the wrap of step_number
\* at number_of_steps included.
C18_PhaseContinuity ==
  [][AdvanceStep =>
       LET motor == steps_to_move[pos] IN
       ( /\ Registered(motor)
         /\ emitted[motor] > 0
         /\ \A j \in DOMAIN emitted : j # motor => emitted[j] = 0
         /\ step_number_off + motor \in Window
         /\ IndexKnown(motor) )
       => TruncRem(NextIndex(motor), 4) =
            ( TruncRem(StepIndex(motor), 4)
              + (IF Val(direction[motor]) = Forward THEN 1 ELSE -1) ) % 4]_vars

\* C19: after an advance of a registered motor at clock reading millis(), the
\* time test on the stored last_step_time holds at a later reading t exactly
\* when step_delay milliseconds have passed on the wrapping clock, that is
\* when (t - millis()) modulo the clock's range >= step_delay.
C19_ClockWrap ==
  [][AdvanceStep =>
       LET motor == steps_to_move[pos] IN
       Registered(motor) =>
         \A k \in DOMAIN TimePoints :
           Gate(TimePoints[k], last_step_time'[motor], Val(step_delay[motor]))
           <=> ( (TimePoints[k] - millis) % ULONG_MOD
                   >= ToULong(Val(step_delay[motor])) )]_vars

\* the list with every element negated
Negated(list) == [j \in DOMAIN list |-> -list[j]]

\* C20: for a full bank, a step(t) call returns, and a step(-t) call made
\* after it returns with every motor's step_number back at its value from
\* before step(t), the 0 of its registration; each emission shows the phase
\* of the step_number it leaves.
C20_RoundTrip ==
  /\ \A i \in Cells(MaxCap), t \in [1 .. MaxCap -> Targets] :
       []( ( /\ pc = "setup"
             /\ steps_to_move = t
             /\ Len(t) = motor_count
             /\ ListInBank
             /\ Registered(i)
             /\ StepIndex(i) = 0 )
           => <>( /\ pc = "idle"
                  /\ []( (pc = "setup" /\ steps_to_move = Negated(t))
                         => <>(pc = "idle" /\ StepIndex(i) = 0) ) ) )
  /\ [][AdvanceStep =>
          LET motor == steps_to_move[pos] IN
          (Registered(motor) /\ IndexKnown(motor))
          => last_writes' =
               stepMotor(TruncRem(NextIndex(motor), 4), pin_count[motor],
                         motor_pin_1[motor], motor_pin_2[motor],
                         motor_pin_3[motor], motor_pin_4[motor])]_vars

====
